---------------------------- MODULE Spec2Model ----------------------------
(***************************************************************************)
(* Model of the family-manager extraction pipeline: the venue adapters of  *)
(* src/event_scrapers (fetch, model call, fence clean-up, JSON validation) *)
(* and the orchestration graph of src/family_manager.py with the           *)
(* recommendation history of src/recommendation_db.py.                     *)
(*                                                                         *)
(* A text is a sequence of characters, each a one-character string.  The   *)
(* fixed message literals of the source are kept as one element each; no   *)
(* operation of the program looks inside them.                             *)
(***************************************************************************)
EXTENDS Integers, Sequences, FiniteSets, TLC

(***************************************************************************)
(* Bounds of the model.                                                    *)
(***************************************************************************)
\* largest number of elements in a generated JSON array
MaxItems == 2
\* largest number of units (markers, tags, blanks, payload characters) an
\* input of the sanitizer specification is made of
MaxUnits == 4
\* largest number of venue names in a generated answer of the venue extractor
MaxVenues == 1
\* number of orchestration runs (processes) over the life of the store
MaxRuns == 2
\* the clock, in days, stops advancing here
MaxDay == 2
\* entries a client of the store appends
MaxAppends == 2
\* clock steps between the calls of a client of the store
MaxTicks == 2
\* years of calendar days after the first one
MaxYears == 2

(***************************************************************************)
(* Characters and text helpers (Python str semantics).                     *)
(***************************************************************************)
\* the backtick character U+0060 (the string syntax cannot hold it literally)
BT == "BACKTICK"
QUOTE == "\""
BACKSLASH == "\\"
NL == "\n"
SP == " "

\* str.strip() with no argument removes whitespace; JSON whitespace is the
\* same set restricted to the characters the model can produce
Whitespace == {SP, NL}

Fence == <<BT, BT, BT>>
FenceJson == <<BT, BT, BT, "j", "s", "o", "n">>

\* s[n:]
DropFirst(s, n) == IF n >= Len(s) THEN <<>> ELSE SubSeq(s, n + 1, Len(s))

\* s[:-n], n > 0
DropLast(s, n) == IF n >= Len(s) THEN <<>> ELSE SubSeq(s, 1, Len(s) - n)

\* s.startswith(p)
StartsWith(s, p) == Len(s) >= Len(p) /\ SubSeq(s, 1, Len(p)) = p

\* s.endswith(p)
EndsWith(s, p) == Len(s) >= Len(p) /\ SubSeq(s, Len(s) - Len(p) + 1, Len(s)) = p

RECURSIVE LStrip(_)
LStrip(s) == IF s # <<>> /\ Head(s) \in Whitespace THEN LStrip(Tail(s)) ELSE s

RECURSIVE RStrip(_)
RStrip(s) ==
    IF s # <<>> /\ s[Len(s)] \in Whitespace THEN RStrip(SubSeq(s, 1, Len(s) - 1)) ELSE s

\* s.strip()
Strip(s) == RStrip(LStrip(s))

(***************************************************************************)
(* The clean-up of markdown code blocks every adapter applies to the model *)
(* output before parsing it.                                               *)
(***************************************************************************)
\* variant: every leading and trailing backtick is removed
SanitizeStrippingBackticks(raw) ==
    LET RECURSIVE DropTicks(_)
        DropTicks(t) == IF t # <<>> /\ Head(t) = BT THEN DropTicks(Tail(t)) ELSE t
        RECURSIVE DropTicksEnd(_)
        DropTicksEnd(t) ==
            IF t # <<>> /\ t[Len(t)] = BT THEN DropTicksEnd(SubSeq(t, 1, Len(t) - 1)) ELSE t
    IN  Strip(DropTicksEnd(DropTicks(Strip(raw))))

Sanitize(raw) ==
    LET r0 == Strip(raw)
        r1 == IF StartsWith(r0, FenceJson) THEN DropFirst(r0, 7) ELSE r0
        r2 == IF StartsWith(r1, Fence) THEN DropFirst(r1, 3) ELSE r1
        r3 == IF EndsWith(r2, Fence) THEN DropLast(r2, 3) ELSE r2
    IN  Strip(r3)

(***************************************************************************)
(* JSON values, as the json module of Python holds them.                   *)
(***************************************************************************)
JNull == [t |-> "null", n |-> 0, s |-> <<>>, keys |-> <<>>, items |-> <<>>]
JBool(b) == [t |-> "bool", n |-> IF b THEN 1 ELSE 0, s |-> <<>>, keys |-> <<>>, items |-> <<>>]
JNum(k) == [t |-> "num", n |-> k, s |-> <<>>, keys |-> <<>>, items |-> <<>>]
JStr(str) == [t |-> "str", n |-> 0, s |-> str, keys |-> <<>>, items |-> <<>>]
JList(xs) == [t |-> "list", n |-> 0, s |-> <<>>, keys |-> <<>>, items |-> xs]
\* a dict: keys in insertion order, items[i] the value of keys[i]
JObj(ks, vs) == [t |-> "dict", n |-> 0, s |-> <<>>, keys |-> ks, items |-> vs]

\* isinstance(v, list)
IsList(v) == v.t = "list"

HasKey(v, k) == v.t = "dict" /\ \E i \in 1..Len(v.keys) : v.keys[i] = k

\* v[k] for a dict that has the key
Get(v, k) == v.items[CHOOSE i \in 1..Len(v.keys) : v.keys[i] = k]

\* d[k] = x: a repeated key keeps its place and takes the new value
DictPut(ks, vs, k, x) ==
    IF \E i \in 1..Len(ks) : ks[i] = k
    THEN [keys |-> ks,
          items |-> [i \in 1..Len(vs) |-> IF ks[i] = k THEN x ELSE vs[i]]]
    ELSE [keys |-> Append(ks, k), items |-> Append(vs, x)]

(***************************************************************************)
(* json.loads: the decoder of the standard library on the characters the   *)
(* model can produce (integers without sign, strings with the escapes      *)
(* \", \\ and \n, arrays, objects, null, true, false).                     *)
(***************************************************************************)
DigitChars == <<"0", "1", "2", "3", "4", "5", "6", "7", "8", "9">>
IsDigit(c) == \E d \in 1..10 : DigitChars[d] = c
DigitVal(c) == (CHOOSE d \in 1..10 : DigitChars[d] = c) - 1

Fail == [ok |-> FALSE, v |-> JNull, i |-> 0]
Done(val, next) == [ok |-> TRUE, v |-> val, i |-> next]

RECURSIVE SkipWs(_, _)
SkipWs(s, i) == IF i <= Len(s) /\ s[i] \in Whitespace THEN SkipWs(s, i + 1) ELSE i

\* string[idx:idx+len(lit)] == lit
LitAt(s, i, lit) == i + Len(lit) - 1 <= Len(s) /\ SubSeq(s, i, i + Len(lit) - 1) = lit

RECURSIVE ScanDigits(_, _, _)
ScanDigits(s, i, acc) ==
    IF i <= Len(s) /\ IsDigit(s[i])
    THEN ScanDigits(s, i + 1, acc * 10 + DigitVal(s[i]))
    ELSE Done(JNum(acc), i)

\* NUMBER_RE: 0 | [1-9][0-9]*
ParseNumber(s, i) ==
    IF s[i] = "0" THEN Done(JNum(0), i + 1) ELSE ScanDigits(s, i, 0)

\* py_scanstring with strict=True, entered after the opening quote
RECURSIVE ScanString(_, _, _)
ScanString(s, i, acc) ==
    IF i > Len(s) THEN Fail
    ELSE IF s[i] = QUOTE THEN Done(JStr(acc), i + 1)
    ELSE IF s[i] = NL THEN Fail
    ELSE IF s[i] = BACKSLASH THEN
        IF i + 1 > Len(s) THEN Fail
        ELSE IF s[i + 1] = QUOTE THEN ScanString(s, i + 2, Append(acc, QUOTE))
        ELSE IF s[i + 1] = BACKSLASH THEN ScanString(s, i + 2, Append(acc, BACKSLASH))
        ELSE IF s[i + 1] = "n" THEN ScanString(s, i + 2, Append(acc, NL))
        ELSE Fail
    ELSE ScanString(s, i + 1, Append(acc, s[i]))

RECURSIVE ParseValue(_, _)
RECURSIVE ParseItems(_, _, _)
RECURSIVE ParsePairs(_, _, _, _)

\* JSONArray after the first element position: value (, value)* ]
ParseItems(s, i, acc) ==
    LET r == ParseValue(s, i) IN
    IF ~r.ok THEN Fail
    ELSE LET j == SkipWs(s, r.i) IN
         IF j > Len(s) THEN Fail
         ELSE IF s[j] = "]" THEN Done(JList(Append(acc, r.v)), j + 1)
         ELSE IF s[j] = "," THEN ParseItems(s, SkipWs(s, j + 1), Append(acc, r.v))
         ELSE Fail

\* JSONObject at a key position: "key" : value (, "key" : value)* }
ParsePairs(s, i, ks, vs) ==
    IF i > Len(s) \/ s[i] # QUOTE THEN Fail
    ELSE LET k == ScanString(s, i + 1, <<>>) IN
    IF ~k.ok THEN Fail
    ELSE LET c == SkipWs(s, k.i) IN
    IF c > Len(s) \/ s[c] # ":" THEN Fail
    ELSE LET r == ParseValue(s, SkipWs(s, c + 1)) IN
    IF ~r.ok THEN Fail
    ELSE LET d == DictPut(ks, vs, k.v.s, r.v)
             j == SkipWs(s, r.i) IN
         IF j > Len(s) THEN Fail
         ELSE IF s[j] = "}" THEN Done(JObj(d.keys, d.items), j + 1)
         ELSE IF s[j] = "," THEN ParsePairs(s, SkipWs(s, j + 1), d.keys, d.items)
         ELSE Fail

\* scanner.py_make_scanner._scan_once
ParseValue(s, i) ==
    IF i > Len(s) THEN Fail
    ELSE IF s[i] = QUOTE THEN ScanString(s, i + 1, <<>>)
    ELSE IF s[i] = "{" THEN
        LET j == SkipWs(s, i + 1) IN
        IF j <= Len(s) /\ s[j] = "}" THEN Done(JObj(<<>>, <<>>), j + 1)
        ELSE ParsePairs(s, j, <<>>, <<>>)
    ELSE IF s[i] = "[" THEN
        LET j == SkipWs(s, i + 1) IN
        IF j <= Len(s) /\ s[j] = "]" THEN Done(JList(<<>>), j + 1)
        ELSE ParseItems(s, j, <<>>)
    ELSE IF LitAt(s, i, <<"n", "u", "l", "l">>) THEN Done(JNull, i + 4)
    ELSE IF LitAt(s, i, <<"t", "r", "u", "e">>) THEN Done(JBool(TRUE), i + 4)
    ELSE IF LitAt(s, i, <<"f", "a", "l", "s", "e">>) THEN Done(JBool(FALSE), i + 5)
    ELSE IF IsDigit(s[i]) THEN ParseNumber(s, i)
    ELSE Fail

\* json.loads(s): ok = FALSE stands for JSONDecodeError (trailing text that
\* is not whitespace is "Extra data")
Loads(s) ==
    LET r == ParseValue(s, SkipWs(s, 1)) IN
    IF ~r.ok THEN Fail
    ELSE IF SkipWs(s, r.i) # Len(s) + 1 THEN Fail
    ELSE r

(***************************************************************************)
(* json.dumps, with indent=None (separators ", " and ": ") or indent=2.    *)
(***************************************************************************)
RECURSIVE DigitsOf(_)
DigitsOf(k) ==
    IF k < 10 THEN <<DigitChars[k + 1]>>
    ELSE Append(DigitsOf(k \div 10), DigitChars[(k % 10) + 1])

RECURSIVE Escape(_)
Escape(str) ==
    IF str = <<>> THEN <<>>
    ELSE LET c == Head(str) IN
         (IF c = QUOTE THEN <<BACKSLASH, QUOTE>>
          ELSE IF c = BACKSLASH THEN <<BACKSLASH, BACKSLASH>>
          ELSE IF c = NL THEN <<BACKSLASH, "n">>
          ELSE <<c>>) \o Escape(Tail(str))

RECURSIVE Spaces(_)
Spaces(k) == IF k <= 0 THEN <<>> ELSE <<SP>> \o Spaces(k - 1)

\* the text between two items, and around the items, at nesting level lvl
ItemSep(indent, lvl) == IF indent THEN <<",", NL>> \o Spaces(2 * lvl) ELSE <<",", SP>>
Opening(indent, lvl) == IF indent THEN <<NL>> \o Spaces(2 * lvl) ELSE <<>>
Closing(indent, lvl) == IF indent THEN <<NL>> \o Spaces(2 * (lvl - 1)) ELSE <<>>

RECURSIVE Dumps(_, _, _)
RECURSIVE DumpItems(_, _, _, _)

DumpItems(v, indent, lvl, i) ==
    IF i > Len(v.items) THEN <<>>
    ELSE (IF i > 1 THEN ItemSep(indent, lvl) ELSE <<>>)
         \o (IF v.t = "dict"
             THEN <<QUOTE>> \o Escape(v.keys[i]) \o <<QUOTE, ":", SP>>
             ELSE <<>>)
         \o Dumps(v.items[i], indent, lvl)
         \o DumpItems(v, indent, lvl, i + 1)

Dumps(v, indent, lvl) ==
    IF v.t = "null" THEN <<"n", "u", "l", "l">>
    ELSE IF v.t = "bool" THEN
        (IF v.n = 1 THEN <<"t", "r", "u", "e">> ELSE <<"f", "a", "l", "s", "e">>)
    ELSE IF v.t = "num" THEN DigitsOf(v.n)
    ELSE IF v.t = "str" THEN <<QUOTE>> \o Escape(v.s) \o <<QUOTE>>
    ELSE LET open == IF v.t = "list" THEN "[" ELSE "{"
             close == IF v.t = "list" THEN "]" ELSE "}" IN
         IF v.items = <<>> THEN <<open, close>>
         ELSE <<open>> \o Opening(indent, lvl + 1)
              \o DumpItems(v, indent, lvl + 1, 1)
              \o Closing(indent, lvl + 1) \o <<close>>

\* json.dumps(v)
DumpsCompact(v) == Dumps(v, FALSE, 0)

\* json.dumps(v, indent=2)
DumpsIndent2(v) == Dumps(v, TRUE, 0)

(***************************************************************************)
(* The venue adapters of src/event_scrapers.  They differ in their         *)
(* messages and in whether the parsed value must be a list.                *)
(***************************************************************************)
ErrorKey == <<"e", "r", "r", "o", "r">>
RawResponseKey == <<"r", "a", "w", "_", "r", "e", "s", "p", "o", "n", "s", "e">>
TitleKey == <<"t", "i", "t", "l", "e">>
VenueKey == <<"v", "e", "n", "u", "e">>
AddressKey == <<"a", "d", "d", "r", "e", "s", "s">>

LoadFailedMsg == <<"Failed to load webpage content">>
\* str(e) of a caught exception
ExcText == "<str(e)>"

\* shape: what the prompt asks the model for; checksList: the isinstance
\* test after json.loads
EventsAdapter ==
    [shape |-> "list",
     checksList |-> TRUE,
     notList |-> <<"Extracted data is not a list of events">>,
     parseFailed |-> <<"Failed to parse extracted events as JSON: ", ExcText>>,
     failed |-> <<"Failed to fetch or process events: ", ExcText>>]

HockingHillsAdapter ==
    [shape |-> "list",
     checksList |-> TRUE,
     notList |-> <<"Extracted data is not a list">>,
     parseFailed |-> <<"Failed to parse extracted information as JSON: ", ExcText>>,
     failed |-> <<"Failed to fetch or process information: ", ExcText>>]

OlentangyCavernsAdapter ==
    [shape |-> "object",
     checksList |-> FALSE,
     notList |-> <<>>,
     parseFailed |-> <<"Failed to parse extracted information as JSON: ", ExcText>>,
     failed |-> <<"Failed to fetch or process information: ", ExcText>>]

Venues ==
    {"get_metroparks_events", "get_zoo_events", "get_lynd_fruit_farm_events",
     "get_conservatory_events", "get_olentangy_caverns_info", "get_wilds_events",
     "get_cincinnati_zoo_events", "get_newport_aquarium_events",
     "get_airforce_museum_events", "get_kings_island_events",
     "get_hocking_hills_info", "get_venue_events"}

\* variant: the weather forecast is still offered to the agent as a tool
toolsWithWeather ==
    <<"get_metroparks_events", "get_zoo_events", "get_lynd_fruit_farm_events",
      "get_conservatory_events", "get_olentangy_caverns_info", "get_wilds_events",
      "get_cincinnati_zoo_events", "get_newport_aquarium_events",
      "get_airforce_museum_events", "get_kings_island_events",
      "get_hocking_hills_info", "get_weekend_forecast">>

\* family_manager.tools: the functions handed to create_react_agent
tools ==
    <<"get_metroparks_events", "get_zoo_events", "get_lynd_fruit_farm_events",
      "get_conservatory_events", "get_olentangy_caverns_info", "get_wilds_events",
      "get_cincinnati_zoo_events", "get_newport_aquarium_events",
      "get_airforce_museum_events", "get_kings_island_events",
      "get_hocking_hills_info">>

\* tool.name: the first argument of the @tool decorator of a function
ToolName(f) ==
    IF f = "get_zoo_events" THEN "get_columbus_zoo_events"
    ELSE IF f = "get_weekend_forecast" THEN "get_weather_forecast"
    ELSE f

\* the functions event_scrapers exports (__all__)
EventFetchers == Venues \ {"get_venue_events"}

Adapter(v) ==
    IF v = "get_olentangy_caverns_info" THEN OlentangyCavernsAdapter
    ELSE IF v = "get_hocking_hills_info" THEN HockingHillsAdapter
    ELSE EventsAdapter

\* json.dumps({"error": msg})
ErrorPayload(msg) == DumpsCompact(JObj(<<ErrorKey>>, <<JStr(msg)>>))

\* json.dumps({"error": msg, "raw_response": raw})
ParseErrorPayload(msg, raw) ==
    DumpsCompact(JObj(<<ErrorKey, RawResponseKey>>, <<JStr(msg), JStr(raw)>>))

\* variant: the parse error is returned without the text that failed
ValidateWithoutRaw(v, cleaned) ==
    LET r == Loads(cleaned) IN
    IF ~r.ok THEN ErrorPayload(Adapter(v).parseFailed)
    ELSE IF Adapter(v).checksList /\ ~IsList(r.v) THEN ErrorPayload(Adapter(v).notList)
    ELSE DumpsIndent2(r.v)

\* variant: a value that is not a list is wrapped into a one-element list
ValidateWrapping(v, cleaned) ==
    LET r == Loads(cleaned) IN
    IF ~r.ok THEN ParseErrorPayload(Adapter(v).parseFailed, cleaned)
    ELSE IF Adapter(v).checksList /\ ~IsList(r.v) THEN DumpsIndent2(JList(<<r.v>>))
    ELSE DumpsIndent2(r.v)

\* variant: the last element of a list is not written out
ValidateDroppingLast(v, cleaned) ==
    LET r == Loads(cleaned) IN
    IF ~r.ok THEN ParseErrorPayload(Adapter(v).parseFailed, cleaned)
    ELSE IF Adapter(v).checksList /\ ~IsList(r.v) THEN ErrorPayload(Adapter(v).notList)
    ELSE IF IsList(r.v) /\ Len(r.v.items) > 1
         THEN DumpsIndent2(JList(SubSeq(r.v.items, 1, Len(r.v.items) - 1)))
         ELSE DumpsIndent2(r.v)

\* the "Validate it's valid JSON" block: the string the adapter returns for
\* the cleaned text
Validate(v, cleaned) ==
    LET r == Loads(cleaned) IN
    IF ~r.ok THEN ParseErrorPayload(Adapter(v).parseFailed, cleaned)
    ELSE IF Adapter(v).checksList /\ ~IsList(r.v) THEN ErrorPayload(Adapter(v).notList)
    ELSE DumpsIndent2(r.v)

(***************************************************************************)
(* Inputs: what the language model may answer.                             *)
(***************************************************************************)
RECURSIVE SeqsUpTo(_, _)
\* all sequences over S of length at most k
SeqsUpTo(S, k) ==
    IF k = 0 THEN {<<>>}
    ELSE LET shorter == SeqsUpTo(S, k - 1) IN
         shorter \cup {Append(q, x) : q \in {r \in shorter : Len(r) = k - 1}, x \in S}

EventRecords ==
    {JNum(1), JObj(<<>>, <<>>), JObj(<<TitleKey>>, <<JStr(<<"a">>)>>)}

ModelValues ==
    {JList(xs) : xs \in SeqsUpTo(EventRecords, MaxItems)}
    \cup {JNum(1), JNull, JStr(<<"a">>), JObj(<<>>, <<>>),
          JObj(<<TitleKey>>, <<JStr(<<"a">>)>>),
          JObj(<<ErrorKey>>, <<JStr(<<"a">>)>>)}

\* a JSON text, the same text cut short by one character, and the text
\* followed by a stray character
ModelBodies ==
    UNION {{DumpsCompact(val), DropLast(DumpsCompact(val), 1),
            Append(DumpsCompact(val), "1")} : val \in ModelValues}

ModelPrefixes == {<<>>, Fence, FenceJson, FenceJson \o <<NL>>}
ModelSuffixes == {<<>>, Fence, <<NL>> \o Fence}

ModelTexts ==
    {pre \o body \o post :
        pre \in ModelPrefixes, body \in ModelBodies, post \in ModelSuffixes}

\* page_content of the loaded document
PageContents == {<<>>, <<"p">>}

(***************************************************************************)
(* The recommendation history (src/recommendation_db.py).  The store is    *)
(* the Firestore collection, a sequence of documents in insertion order.   *)
(***************************************************************************)
\* weather_forecast[:200]
WeatherLimit == 200
\* get_recently_visited_venues(days=30)
HistoryDays == 30

Truncate(text, k) == IF Len(text) <= k THEN text ELSE SubSeq(text, 1, k)

\* the document save_recommendation builds and adds
NewEntry(id, clock, raw, venues, weather) ==
    [id |-> id,
     timestamp |-> clock,
     date |-> clock,
     venues_mentioned |-> venues,
     events_mentioned |-> JList(<<>>),
     weather_conditions |-> weather,
     raw_suggestions |-> raw]

\* variant: where(timestamp > cutoff)
RECURSIVE InWindowStrict(_, _)
InWindowStrict(docsSeq, cutoff) ==
    IF docsSeq = <<>> THEN <<>>
    ELSE IF Head(docsSeq).timestamp > cutoff
         THEN <<Head(docsSeq)>> \o InWindowStrict(Tail(docsSeq), cutoff)
         ELSE InWindowStrict(Tail(docsSeq), cutoff)

\* where(timestamp >= cutoff): the documents of the window, in store order
RECURSIVE InWindow(_, _)
InWindow(docsSeq, cutoff) ==
    IF docsSeq = <<>> THEN <<>>
    ELSE IF Head(docsSeq).timestamp >= cutoff
         THEN <<Head(docsSeq)>> \o InWindow(Tail(docsSeq), cutoff)
         ELSE InWindow(Tail(docsSeq), cutoff)

\* order_by(timestamp, DESCENDING): insertion of one document into a
\* sequence already ordered (documents of equal timestamp in id order)
RECURSIVE InsertDesc(_, _)
InsertDesc(d, sorted) ==
    IF sorted = <<>> THEN <<d>>
    ELSE IF \/ d.timestamp > Head(sorted).timestamp
            \/ d.timestamp = Head(sorted).timestamp /\ d.id < Head(sorted).id
         THEN <<d>> \o sorted
         ELSE <<Head(sorted)>> \o InsertDesc(d, Tail(sorted))

RECURSIVE SortDesc(_)
SortDesc(docsSeq) ==
    IF docsSeq = <<>> THEN <<>> ELSE InsertDesc(Head(docsSeq), SortDesc(Tail(docsSeq)))

\* variant: the query has no where clause
GetRecentRecommendationsUnfiltered(docsSeq, clock, days) == SortDesc(docsSeq)

\* RecommendationDatabase.get_recent_recommendations(days)
GetRecentRecommendations(docsSeq, clock, days) == SortDesc(InWindow(docsSeq, clock - days))

\* the elements venues.update(v) iterates over, in order: the items of a
\* list, the keys of a dict, the characters of a str
NameSeqOf(v) ==
    IF v.t = "list" THEN v.items
    ELSE IF v.t = "dict" THEN [i \in 1..Len(v.keys) |-> JStr(v.keys[i])]
    ELSE IF v.t = "str" THEN [i \in 1..Len(v.s) |-> JStr(<<v.s[i]>>)]
    ELSE <<>>

\* the names venues.update(v) adds to the set
NamesOf(v) == {NameSeqOf(v)[i] : i \in 1..Len(NameSeqOf(v))}

\* venues.update(v) raises TypeError: v is not iterable (a number, a
\* boolean, None) or one of its elements is not hashable (a list, a dict)
UpdateRaises(v) ==
    \/ v.t \in {"null", "bool", "num"}
    \/ \E x \in NamesOf(v) : x.t \in {"list", "dict"}

\* the order of str on the names of the model, smallest first
NamesInOrder == <<JStr(<<"Columbus Zoo">>), JStr(<<"Metro Parks">>), JStr(TitleKey)>>

NameRank(x) == CHOOSE i \in 1..Len(NamesInOrder) : NamesInOrder[i] = x

\* sorted(...) raises TypeError on elements of different types
Unorderable(names) == \E x, y \in names : x.t # y.t

RECURSIVE InsertName(_, _)
InsertName(x, sorted) ==
    IF sorted = <<>> THEN <<x>>
    ELSE IF NameRank(x) <= NameRank(Head(sorted)) THEN <<x>> \o sorted
    ELSE <<Head(sorted)>> \o InsertName(x, Tail(sorted))

\* sorted(seq)
RECURSIVE SortNames(_)
SortNames(seq) ==
    IF seq = <<>> THEN <<>> ELSE InsertName(Head(seq), SortNames(Tail(seq)))

\* list(venues): the elements of the set, each once
RECURSIVE ListOf(_)
ListOf(names) ==
    IF names = {} THEN <<>>
    ELSE LET x == CHOOSE y \in names : TRUE IN <<x>> \o ListOf(names \ {x})

\* every element the loop of lines 196-198 passes to the collection
RECURSIVE AllNameSeq(_)
AllNameSeq(recent) ==
    IF recent = <<>> THEN <<>>
    ELSE NameSeqOf(Head(recent).venues_mentioned) \o AllNameSeq(Tail(recent))

VenuesRaise(recent) ==
    \/ \E i \in 1..Len(recent) : UpdateRaises(recent[i].venues_mentioned)
    \/ Unorderable(UNION {NamesOf(recent[i].venues_mentioned) : i \in 1..Len(recent)})

\* variant: the names are collected in a list, not in a set
GetRecentlyVisitedVenuesKeepingRepeats(docsSeq, clock, days) ==
    LET recent == GetRecentRecommendations(docsSeq, clock, days) IN
    IF VenuesRaise(recent) THEN [raised |-> TRUE, venues |-> <<>>]
    ELSE [raised |-> FALSE, venues |-> SortNames(AllNameSeq(recent))]

\* variant: the names of every stored document, whatever its age
GetRecentlyVisitedVenuesOfAll(docsSeq, clock, days) ==
    IF VenuesRaise(docsSeq) THEN [raised |-> TRUE, venues |-> <<>>]
    ELSE [raised |-> FALSE,
          venues |-> SortNames(ListOf(UNION {NamesOf(docsSeq[i].venues_mentioned) :
                                                 i \in 1..Len(docsSeq)}))]

\* RecommendationDatabase.get_recently_visited_venues(days): whether the
\* call raised and, if not, the sorted list of the set that collects
\* venues_mentioned over the recent documents
GetRecentlyVisitedVenues(docsSeq, clock, days) ==
    LET recent == GetRecentRecommendations(docsSeq, clock, days) IN
    IF VenuesRaise(recent) THEN [raised |-> TRUE, venues |-> <<>>]
    ELSE [raised |-> FALSE,
          venues |-> SortNames(ListOf(UNION {NamesOf(recent[i].venues_mentioned) :
                                                 i \in 1..Len(recent)}))]

(***************************************************************************)
(* save_recommendation_to_history: the clean-up of the extractor answer.   *)
(***************************************************************************)
\* the end of a match of \s*``` that begins at i, or 0
RECURSIVE WsFenceEnd(_, _)
WsFenceEnd(s, i) ==
    IF LitAt(s, i, Fence) THEN i + 3
    ELSE IF i <= Len(s) /\ s[i] \in Whitespace THEN WsFenceEnd(s, i + 1)
    ELSE 0

\* re.sub(r'```json\s*|\s*```', '', s) from position i on
RECURSIVE SubFences(_, _)
SubFences(s, i) ==
    IF i > Len(s) THEN <<>>
    ELSE IF LitAt(s, i, FenceJson) THEN SubFences(s, SkipWs(s, i + 7))
    ELSE IF WsFenceEnd(s, i) # 0 THEN SubFences(s, WsFenceEnd(s, i))
    ELSE <<s[i]>> \o SubFences(s, i + 1)

\* venues_text after lines 218-222
CleanVenuesText(content) ==
    LET t == Strip(content) IN
    IF StartsWith(t, Fence) THEN Strip(SubFences(t, 1)) ELSE t

\* len(venues_mentioned) is defined
HasLen(v) == v.t \in {"list", "dict", "str"}

\* what the venue extractor may answer
VenueNames == {JStr(<<"Columbus Zoo">>), JStr(<<"Metro Parks">>)}

VenueAnswers ==
    {DumpsCompact(JList(xs)) : xs \in SeqsUpTo(VenueNames, MaxVenues)}
    \cup {FenceJson \o <<NL>> \o DumpsCompact(JList(<<JStr(<<"Columbus Zoo">>)>>)) \o <<NL>> \o Fence,
          DumpsCompact(JObj(<<TitleKey>>, <<JStr(<<"Columbus Zoo">>)>>)),
          DumpsCompact(JList(<<JStr(<<"Columbus Zoo">>), JStr(<<"Columbus Zoo">>)>>)),
          DumpsCompact(JNum(1)),
          <<"N", "o", "n", "e">>}

\* values of venues_mentioned a caller of save_recommendation passes: lists
\* of names, one of them with a repeated name, and the object and the
\* number that json.loads also yields for an extractor answer
VenueValues ==
    {JList(<<JStr(<<"Columbus Zoo">>)>>),
     JList(<<JStr(<<"Metro Parks">>)>>),
     JList(<<JStr(<<"Columbus Zoo">>), JStr(<<"Columbus Zoo">>)>>),
     JObj(<<TitleKey>>, <<JStr(<<"Columbus Zoo">>)>>),
     JNum(1)}

\* the agent's final message
RawMessages == {<<>>, <<"Visit the zoo">>}
WeatherTexts == {<<"Sunny">>}

(***************************************************************************)
(* The family configuration (src/family_config.py).                        *)
(***************************************************************************)
\* CHILDREN: the birthdate strings, in list order
CHILDREN ==
    <<[name |-> "Grayson", birthdate |-> <<"2", "0", "1", "8", "-", "0", "4", "-", "2", "7">>],
      [name |-> "Madeline", birthdate |-> <<"2", "0", "1", "9", "-", "1", "2", "-", "0", "3">>],
      [name |-> "Chase", birthdate |-> <<"2", "0", "2", "2", "-", "0", "2", "-", "2", "2">>]>>

\* the number a run of digits reads as
RECURSIVE DigitsValue(_)
DigitsValue(ds) ==
    IF ds = <<>> THEN 0
    ELSE 10 * DigitsValue(SubSeq(ds, 1, Len(ds) - 1)) + DigitVal(ds[Len(ds)])

\* datetime.strptime(text, '%Y-%m-%d')
StrpTime(text) ==
    [year |-> DigitsValue(SubSeq(text, 1, 4)),
     month |-> DigitsValue(SubSeq(text, 6, 7)),
     day |-> DigitsValue(SubSeq(text, 9, 10))]

\* (today.month, today.day) < (birth.month, birth.day), the order of tuples
MonthDayBefore(a, b) == a.month < b.month \/ (a.month = b.month /\ a.day < b.day)

\* variant: the birthday itself still counts as not yet reached
AgeOnBirthdayOld(child, date) ==
    LET birth == StrpTime(child.birthdate)
        age == date.year - birth.year
    IN  IF ~MonthDayBefore(birth, date) THEN age - 1 ELSE age

\* the body of the loop, lines 49-59
AgeOf(child, date) ==
    LET birth == StrpTime(child.birthdate)
        age == date.year - birth.year
    IN  IF MonthDayBefore(date, birth) THEN age - 1 ELSE age

\* get_children_ages() when datetime.now() is date
GetChildrenAgesOn(date) == [i \in 1..Len(CHILDREN) |-> AgeOf(CHILDREN[i], date)]

\* the calendar: the days of a month, and the day after a date
IsLeap(y) == (y % 4 = 0 /\ y % 100 # 0) \/ y % 400 = 0

DaysIn(y, m) ==
    IF m = 2 THEN (IF IsLeap(y) THEN 29 ELSE 28)
    ELSE IF m \in {4, 6, 9, 11} THEN 30 ELSE 31

DayAfter(d) ==
    IF d.day < DaysIn(d.year, d.month) THEN [d EXCEPT !.day = d.day + 1]
    ELSE IF d.month < 12 THEN [year |-> d.year, month |-> d.month + 1, day |-> 1]
    ELSE [year |-> d.year + 1, month |-> 1, day |-> 1]

\* the first day the model looks at: the first of January of the year the
\* youngest child was born
FirstDay == [year |-> StrpTime(CHILDREN[Len(CHILDREN)].birthdate).year, month |-> 1, day |-> 1]

(***************************************************************************)
(* State.                                                                  *)
(***************************************************************************)
VARIABLES
    venue,      \* the adapter being invoked
    apc,        \* its position: idle, start, loaded, invoked, cleaned, returned, raised
    docs,       \* what loader.load() returned
    response,   \* response.content of the model
    result,     \* the cleaned text
    payload,    \* the string the adapter returned
    exc,        \* the step whose exception was caught, or "none"
    fetches,    \* loader.load() calls of this invocation
    llmCalls,   \* llm.invoke() calls of this invocation
    passes,     \* clean-ups applied to the text at hand
    node,       \* the graph node to run next
    runStatus,  \* idle, running, done, or failed (an exception left graph.invoke)
    failedIn,   \* the call whose exception ended the run
    raw_message, \* State["raw_message"]
    html,       \* State["html"]
    recently_visited, \* the venue names put into the system prompt
    store,      \* the documents of the collection
    dbInstance, \* _db_instance: "none" or "db"
    projectId,  \* FIRESTORE_PROJECT_ID is set
    now,        \* the clock, in days
    warnings,   \* the warning lines printed by this run
    histFailed, \* the history-store calls that raised in this run
    drafts,     \* drafts created by this run
    runs,       \* runs started
    doc_ids,    \* the ids save_recommendation returned to this run
    constructed, \* RecommendationDatabase objects constructed by this process
    queryDays,  \* the window of the last history query, or -1
    recommendations, \* what get_recent_recommendations returned to it
    venue_list, \* what get_recently_visited_venues returned to it
    ticks,      \* clock steps taken by the store client
    today,      \* datetime.now() as get_children_ages reads it
    ages        \* what get_children_ages returned for it

adapterVars ==
    <<venue, apc, docs, response, result, payload, exc, fetches, llmCalls, passes>>

runVars ==
    <<node, runStatus, failedIn, raw_message, html, recently_visited, store,
      dbInstance, projectId, now, warnings, histFailed, drafts, runs, doc_ids,
      constructed>>

queryVars == <<queryDays, recommendations, venue_list, ticks>>

configVars == <<today, ages>>

vars == <<adapterVars, runVars, queryVars, configVars>>

AdapterInit ==
    /\ venue = "none"
    /\ apc = "idle"
    /\ docs = <<>>
    /\ response = <<>>
    /\ result = <<>>
    /\ payload = <<>>
    /\ exc = "none"
    /\ fetches = 0
    /\ llmCalls = 0
    /\ passes = 0

\* variant: once a tool has returned an error the agent calls no other tool
CallAdapterUnlessError ==
    /\ apc \in {"idle", "returned"}
    /\ apc = "returned" => ~(Loads(payload).ok /\ HasKey(Loads(payload).v, ErrorKey))
    /\ \E v \in Venues : venue' = v
    /\ apc' = "start"
    /\ docs' = <<>>
    /\ response' = <<>>
    /\ result' = <<>>
    /\ payload' = <<>>
    /\ exc' = "none"
    /\ fetches' = 0
    /\ llmCalls' = 0
    /\ passes' = 0
    /\ UNCHANGED <<runVars, queryVars, configVars>>

\* the agent calls a tool
CallAdapter ==
    /\ apc \in {"idle", "returned"}
    /\ \E v \in Venues : venue' = v
    /\ apc' = "start"
    /\ docs' = <<>>
    /\ response' = <<>>
    /\ result' = <<>>
    /\ payload' = <<>>
    /\ exc' = "none"
    /\ fetches' = 0
    /\ llmCalls' = 0
    /\ passes' = 0
    /\ UNCHANGED <<runVars, queryVars, configVars>>

\* variant: no handler, the exception leaves the adapter
Uncaught(step) ==
    /\ apc' = "raised"
    /\ exc' = step
    /\ payload' = <<>>

\* variant: the handler runs the failed step again
Retried(step) ==
    /\ apc' = (IF step = "load" THEN "start" ELSE "loaded")
    /\ exc' = step
    /\ payload' = <<>>

\* except Exception as e: return json.dumps({"error": ...})
Caught(step) ==
    /\ apc' = "returned"
    /\ exc' = step
    /\ payload' = ErrorPayload(Adapter(venue).failed)

\* loader.load() and the check of its result
LoadPage ==
    /\ apc = "start"
    /\ fetches' = fetches + 1
    /\ \/ /\ Caught("load")
          /\ UNCHANGED docs
       \/ /\ docs' = <<>>
          /\ apc' = "returned"
          /\ payload' = ErrorPayload(LoadFailedMsg)
          /\ UNCHANGED exc
       \/ /\ \E c \in PageContents : docs' = <<c>>
          /\ apc' = "loaded"
          /\ UNCHANGED <<payload, exc>>
    /\ UNCHANGED <<venue, response, result, llmCalls, passes>>
    /\ UNCHANGED <<runVars, queryVars, configVars>>

\* init_chat_model(...) and llm.invoke(extraction_prompt)
InvokeModel ==
    /\ apc = "loaded"
    /\ \/ /\ Caught("init_chat_model")
          /\ UNCHANGED <<response, llmCalls>>
       \/ /\ Caught("invoke")
          /\ llmCalls' = llmCalls + 1
          /\ UNCHANGED response
       \/ /\ \E text \in ModelTexts : response' = text
          /\ llmCalls' = llmCalls + 1
          /\ apc' = "invoked"
          /\ UNCHANGED <<payload, exc>>
    /\ UNCHANGED <<venue, docs, result, fetches, passes>>
    /\ UNCHANGED <<runVars, queryVars, configVars>>

\* "Clean up markdown code blocks if present"
CleanUp ==
    /\ apc = "invoked"
    /\ result' = Sanitize(response)
    /\ passes' = passes + 1
    /\ apc' = "cleaned"
    /\ UNCHANGED <<venue, docs, response, payload, exc, fetches, llmCalls>>
    /\ UNCHANGED <<runVars, queryVars, configVars>>

\* "Validate it's valid JSON" and return
ValidateAndReturn ==
    /\ apc = "cleaned"
    /\ payload' = Validate(venue, result)
    /\ apc' = "returned"
    /\ UNCHANGED <<venue, docs, response, result, exc, fetches, llmCalls, passes>>
    /\ UNCHANGED <<runVars, queryVars, configVars>>

(***************************************************************************)
(* The orchestration graph of src/family_manager.py:                       *)
(* START -> create_messages -> get_ideas_for_today ->                      *)
(* save_recommendation_to_history -> generate_newsletter_html ->           *)
(* create_gmail_draft_from_html.                                           *)
(***************************************************************************)
RunInit ==
    /\ node = "START"
    /\ runStatus = "idle"
    /\ failedIn = "none"
    /\ raw_message = <<>>
    /\ html = <<>>
    /\ recently_visited = <<>>
    /\ store = <<>>
    /\ dbInstance = "none"
    /\ projectId = TRUE
    /\ now = 0
    /\ warnings = {}
    /\ histFailed = {}
    /\ drafts = 0
    /\ runs = 0
    /\ doc_ids = <<>>
    /\ constructed = 0

\* a new process starts and calls graph.invoke({})
StartRun ==
    /\ runStatus \in {"idle", "done", "failed"}
    /\ runs < MaxRuns
    /\ runs' = runs + 1
    /\ node' = "create_messages"
    /\ runStatus' = "running"
    /\ failedIn' = "none"
    /\ raw_message' = <<>>
    /\ html' = <<>>
    /\ recently_visited' = <<>>
    /\ dbInstance' = "none"
    /\ constructed' = 0
    /\ projectId' \in BOOLEAN
    /\ warnings' = {}
    /\ histFailed' = {}
    /\ drafts' = 0
    /\ doc_ids' = <<>>
    /\ UNCHANGED <<store, now>>
    /\ UNCHANGED <<adapterVars, queryVars, configVars>>

\* time passes
Tick ==
    /\ now < MaxDay
    /\ now' = now + 1
    /\ UNCHANGED <<node, runStatus, failedIn, raw_message, html, recently_visited,
                   store, dbInstance, constructed, projectId, warnings, histFailed, drafts, runs, doc_ids>>
    /\ UNCHANGED <<adapterVars, queryVars, configVars>>

\* an exception leaves the node and graph.invoke
Abort(call) ==
    /\ runStatus' = "failed"
    /\ failedIn' = call

\* variant: the instance is never kept, every call constructs one
GetDbOutcomesNoCache ==
    IF ~projectId THEN {[instance |-> "none", raised |-> TRUE, built |-> FALSE]}
    ELSE {[instance |-> "none", raised |-> FALSE, built |-> TRUE],
          [instance |-> "none", raised |-> TRUE, built |-> FALSE]}

\* get_db(): the outcomes of the call, as the value of _db_instance after
\* it, whether it raised, and whether RecommendationDatabase() completed
GetDbOutcomes ==
    IF dbInstance = "db" THEN {[instance |-> "db", raised |-> FALSE, built |-> FALSE]}
    ELSE IF ~projectId THEN {[instance |-> "none", raised |-> TRUE, built |-> FALSE]}
    ELSE {[instance |-> "db", raised |-> FALSE, built |-> TRUE],
          [instance |-> "none", raised |-> TRUE, built |-> FALSE]}

\* the count of completed constructions after a get_db() call
Construct(g) == constructed' = constructed + (IF g.built THEN 1 ELSE 0)

\* variant: the history load is not guarded, its exception ends the run
LoadUncaught(g) ==
    /\ dbInstance' = g.instance
    /\ Construct(g)
    /\ histFailed' = histFailed \cup {"load"}
    /\ Abort("get_recently_visited_venues")
    /\ UNCHANGED <<recently_visited, warnings, node>>

\* create_messages, lines 122-125: the handler of a failed history load
LoadFailed(g) ==
    /\ dbInstance' = g.instance
    /\ Construct(g)
    /\ recently_visited' = <<>>
    /\ warnings' = warnings \cup {"Could not load recommendation history"}
    /\ histFailed' = histFailed \cup {"load"}
    /\ node' = "get_ideas_for_today"
    /\ UNCHANGED <<runStatus, failedIn>>

CreateMessages ==
    /\ runStatus = "running"
    /\ node = "create_messages"
    /\ \/ /\ Abort("get_weekend_forecast")
          /\ UNCHANGED <<node, recently_visited, dbInstance, constructed, warnings, histFailed>>
       \/ \E g \in GetDbOutcomes :
            \/ /\ g.raised
               /\ LoadFailed(g)
            \/ /\ ~g.raised
               /\ LoadFailed(g)
            \/ /\ ~g.raised
               /\ GetRecentlyVisitedVenues(store, now, HistoryDays).raised
               /\ LoadFailed(g)
            \/ /\ ~g.raised
               /\ ~GetRecentlyVisitedVenues(store, now, HistoryDays).raised
               /\ dbInstance' = g.instance
               /\ Construct(g)
               /\ recently_visited' = GetRecentlyVisitedVenues(store, now, HistoryDays).venues
               /\ node' = "get_ideas_for_today"
               /\ UNCHANGED <<runStatus, failedIn, warnings, histFailed>>
    /\ UNCHANGED <<raw_message, html, store, projectId, now, drafts, runs, doc_ids>>
    /\ UNCHANGED <<adapterVars, queryVars, configVars>>

GetIdeasForToday ==
    /\ runStatus = "running"
    /\ node = "get_ideas_for_today"
    /\ \/ /\ Abort("agent.invoke")
          /\ UNCHANGED <<node, raw_message>>
       \/ /\ \E m \in RawMessages : raw_message' = m
          /\ node' = "save_recommendation_to_history"
          /\ UNCHANGED <<runStatus, failedIn>>
    /\ UNCHANGED <<html, recently_visited, store, dbInstance, constructed, projectId, now,
                   warnings, histFailed, drafts, runs, doc_ids>>
    /\ UNCHANGED <<adapterVars, queryVars, configVars>>

\* save_recommendation_to_history, lines 238-245: the handler of any
\* exception of the try block; the node then returns {}
SaveFailed(call) ==
    /\ warnings' = warnings \cup {"Could not save recommendation history"}
    /\ histFailed' = (IF call \in {"get_db", "add"} THEN histFailed \cup {"append"} ELSE histFailed)
    /\ node' = "generate_newsletter_html"
    /\ UNCHANGED <<runStatus, failedIn>>

SaveRecommendationToHistory ==
    /\ runStatus = "running"
    /\ node = "save_recommendation_to_history"
    /\ \/ /\ raw_message = <<>>
          /\ warnings' = warnings \cup {"No recommendations to save"}
          /\ node' = "generate_newsletter_html"
          /\ UNCHANGED <<runStatus, failedIn, store, dbInstance, constructed, histFailed>>
       \/ /\ raw_message # <<>>
          /\ \/ /\ \E call \in {"init_chat_model", "extractor.invoke"} : SaveFailed(call)
                /\ UNCHANGED <<store, dbInstance, constructed>>
             \/ \E answer \in VenueAnswers :
                  LET parsed == Loads(CleanVenuesText(answer)) IN
                  \/ /\ ~parsed.ok
                     /\ SaveFailed("json.loads")
                     /\ UNCHANGED <<store, dbInstance, constructed>>
                  \/ /\ parsed.ok
                     /\ SaveFailed("get_weekend_forecast")
                     /\ UNCHANGED <<store, dbInstance, constructed>>
                  \/ /\ parsed.ok
                     /\ \E g \in GetDbOutcomes, w \in WeatherTexts :
                          \/ /\ g.raised
                             /\ dbInstance' = g.instance
                             /\ Construct(g)
                             /\ SaveFailed("get_db")
                             /\ UNCHANGED store
                          \/ /\ ~g.raised
                             /\ dbInstance' = g.instance
                             /\ Construct(g)
                             /\ SaveFailed("add")
                             /\ UNCHANGED store
                          \/ /\ ~g.raised
                             /\ dbInstance' = g.instance
                             /\ Construct(g)
                             /\ store' = Append(store,
                                    NewEntry(Len(store) + 1, now, raw_message, parsed.v,
                                             Truncate(w, WeatherLimit)))
                             /\ IF HasLen(parsed.v)
                                THEN /\ node' = "generate_newsletter_html"
                                     /\ UNCHANGED <<runStatus, failedIn, warnings, histFailed>>
                                ELSE SaveFailed("len")
    /\ doc_ids' = (IF store' # store THEN Append(doc_ids, store'[Len(store')].id) ELSE doc_ids)
    /\ UNCHANGED <<raw_message, html, recently_visited, projectId, now, drafts, runs>>
    /\ UNCHANGED <<adapterVars, queryVars, configVars>>

GenerateNewsletterHtml ==
    /\ runStatus = "running"
    /\ node = "generate_newsletter_html"
    /\ \/ /\ Abort("html_formatter.invoke")
          /\ UNCHANGED <<node, html>>
       \/ /\ html' = <<"<html>">>
          /\ node' = "create_gmail_draft_from_html"
          /\ UNCHANGED <<runStatus, failedIn>>
    /\ UNCHANGED <<raw_message, recently_visited, store, dbInstance, constructed, projectId, now,
                   warnings, histFailed, drafts, runs, doc_ids>>
    /\ UNCHANGED <<adapterVars, queryVars, configVars>>

CreateGmailDraftFromHtml ==
    /\ runStatus = "running"
    /\ node = "create_gmail_draft_from_html"
    /\ \/ /\ Abort("get_gmail_creds")
          /\ UNCHANGED <<node, drafts>>
       \/ /\ node' = "END"
          /\ runStatus' = "done"
          /\ \/ drafts' = drafts + 1
             \/ UNCHANGED drafts
          /\ UNCHANGED failedIn
    /\ UNCHANGED <<raw_message, html, recently_visited, store, dbInstance, constructed, projectId,
                   now, warnings, histFailed, runs, doc_ids>>
    /\ UNCHANGED <<adapterVars, queryVars, configVars>>

(***************************************************************************)
(* Specifications: one adapter invocation after another (Spec), and one    *)
(* orchestration run after another (RunSpec).                              *)
(***************************************************************************)
\* no history query made yet
QueryInit ==
    /\ queryDays = -1
    /\ recommendations = <<>>
    /\ venue_list = [raised |-> FALSE, venues |-> <<>>]
    /\ ticks = 0

\* get_children_ages not called yet
ConfigInit ==
    /\ today = FirstDay
    /\ ages = <<>>

Init == AdapterInit /\ RunInit /\ QueryInit /\ ConfigInit

Next ==
    \/ CallAdapter
    \/ LoadPage
    \/ InvokeModel
    \/ CleanUp
    \/ ValidateAndReturn

Spec == Init /\ [][Next]_vars

(***************************************************************************)
(* The clean-up alone, as a function of its input: the text is cleaned,    *)
(* and the cleaned text is handed to the clean-up again.                   *)
(***************************************************************************)
\* language tags a model may put after the opening marker
LanguageTags == {<<"j", "s", "o", "n">>, <<"p", "y">>}

SanitizerUnits == {<<BT>>, Fence, <<NL>>, <<"a">>} \cup LanguageTags

RECURSIVE Flatten(_)
Flatten(units) == IF units = <<>> THEN <<>> ELSE Head(units) \o Flatten(Tail(units))

SanitizerTexts == {Flatten(units) : units \in SeqsUpTo(SanitizerUnits, MaxUnits)}

SanitizerInit ==
    /\ RunInit
    /\ QueryInit
    /\ ConfigInit
    /\ venue = "none"
    /\ apc = "invoked"
    /\ docs = <<>>
    /\ response \in SanitizerTexts
    /\ result = <<>>
    /\ payload = <<>>
    /\ exc = "none"
    /\ fetches = 0
    /\ llmCalls = 0
    /\ passes = 0

\* the cleaned text becomes the input of another clean-up
CleanAgain ==
    /\ apc = "cleaned"
    /\ passes < 2
    /\ response' = result
    /\ apc' = "invoked"
    /\ UNCHANGED <<venue, docs, result, payload, exc, fetches, llmCalls, passes>>
    /\ UNCHANGED <<runVars, queryVars, configVars>>

SanitizerNext == CleanUp \/ CleanAgain

SanitizerSpec == SanitizerInit /\ [][SanitizerNext]_vars

(***************************************************************************)
(* A client of the history store: the facade functions of                  *)
(* src/recommendation_db.py called in any order while time passes.         *)
(***************************************************************************)
\* the windows asked for
WindowDays == {0, 1, HistoryDays}
\* how far the clock moves between two calls, in days
ClockSteps == {1, HistoryDays + 1}

\* the results of an earlier query are dropped
ForgetQuery ==
    /\ queryDays' = -1
    /\ recommendations' = <<>>
    /\ venue_list' = [raised |-> FALSE, venues |-> <<>>]

\* variant: the document is written under the same id every time
SaveRecommendationOverwriting(raw, venues, weather) ==
    \E g \in GetDbOutcomes :
        /\ dbInstance' = g.instance
        /\ Construct(g)
        /\ \/ /\ g.raised
              /\ UNCHANGED store
           \/ /\ ~g.raised
              /\ store' = <<NewEntry(1, now, raw, venues, weather)>>

\* save_recommendation(raw_suggestions, venues_mentioned, weather_conditions):
\* get_db(), then collection.add(doc_data), either of which may raise
SaveRecommendation(raw, venues, weather) ==
    \E g \in GetDbOutcomes :
        /\ dbInstance' = g.instance
        /\ Construct(g)
        /\ \/ /\ g.raised
              /\ UNCHANGED store
           \/ /\ ~g.raised
              /\ UNCHANGED store
           \/ /\ ~g.raised
              /\ store' = Append(store, NewEntry(Len(store) + 1, now, raw, venues, weather))

\* a client appends an entry
ClientSave ==
    /\ Len(store) < MaxAppends
    /\ \E venues \in VenueValues, w \in WeatherTexts :
          SaveRecommendation(<<"Visit the zoo">>, venues, w)
    /\ ForgetQuery
    /\ UNCHANGED <<node, runStatus, failedIn, raw_message, html, recently_visited,
                   projectId, now, warnings, histFailed, drafts, runs, doc_ids, ticks>>
    /\ UNCHANGED <<adapterVars, configVars>>

\* a client asks for the recent entries and the recent venues of a window
ClientQuery ==
    /\ \E days \in WindowDays, g \in GetDbOutcomes :
          /\ ~g.raised
          /\ dbInstance' = g.instance
          /\ Construct(g)
          /\ queryDays' = days
          /\ recommendations' = GetRecentRecommendations(store, now, days)
          /\ venue_list' = GetRecentlyVisitedVenues(store, now, days)
    /\ UNCHANGED <<node, runStatus, failedIn, raw_message, html, recently_visited, store,
                   projectId, now, warnings, histFailed, drafts, runs, doc_ids, ticks>>
    /\ UNCHANGED <<adapterVars, configVars>>

\* time passes between two calls
ClockStep ==
    /\ ticks < MaxTicks
    /\ \E d \in ClockSteps : now' = now + d
    /\ ticks' = ticks + 1
    /\ ForgetQuery
    /\ UNCHANGED <<node, runStatus, failedIn, raw_message, html, recently_visited, store,
                   dbInstance, constructed, projectId, warnings, histFailed, drafts, runs, doc_ids>>
    /\ UNCHANGED <<adapterVars, configVars>>

StoreNext == ClientSave \/ ClientQuery \/ ClockStep

StoreSpec == Init /\ [][StoreNext]_vars

(***************************************************************************)
(* get_children_ages called day after day.                                 *)
(***************************************************************************)
GetChildrenAges ==
    /\ ages = <<>>
    /\ ages' = GetChildrenAgesOn(today)
    /\ UNCHANGED today
    /\ UNCHANGED <<adapterVars, runVars, queryVars>>

\* midnight passes
NextDay ==
    /\ DayAfter(today).year <= FirstDay.year + MaxYears
    /\ today' = DayAfter(today)
    /\ ages' = <<>>
    /\ UNCHANGED <<adapterVars, runVars, queryVars>>

ConfigNext == GetChildrenAges \/ NextDay

ConfigSpec == Init /\ [][ConfigNext]_vars

RunNext ==
    \/ StartRun
    \/ Tick
    \/ CreateMessages
    \/ GetIdeasForToday
    \/ SaveRecommendationToHistory
    \/ GenerateNewsletterHtml
    \/ CreateGmailDraftFromHtml

RunSpec == Init /\ [][RunNext]_vars

(***************************************************************************)
(* Properties.                                                             *)
(***************************************************************************)
\* the adapter returned from the validation block
Validated == apc = "returned" /\ exc = "none" /\ docs # <<>>

\* the value the cleaned text parses to, and the value a consumer reads
\* from the returned string
Parsed == Loads(result)
Returned == Loads(payload)

\* the returned string is an error payload: an object with an "error" key
IsErrorPayload == Returned.ok /\ HasKey(Returned.v, ErrorKey)

\* the parsed value has the top-level shape the adapter's prompt asks for
ShapeMatches ==
    IF Adapter(venue).shape = "list" THEN IsList(Parsed.v) ELSE Parsed.v.t = "dict"

\* the number of top-level elements of an array text, counted on the text:
\* the commas at depth one outside strings, plus one when there is an element
RECURSIVE CountScan(_, _, _, _, _, _)
CountScan(s, i, depth, inStr, commas, any) ==
    IF i > Len(s) THEN IF any THEN commas + 1 ELSE 0
    ELSE IF inStr THEN
        IF s[i] = BACKSLASH THEN CountScan(s, i + 2, depth, TRUE, commas, any)
        ELSE CountScan(s, i + 1, depth, s[i] # QUOTE, commas, any)
    ELSE IF s[i] \in {"[", "{"} THEN CountScan(s, i + 1, depth + 1, FALSE, commas, any \/ depth >= 1)
    ELSE IF s[i] \in {"]", "}"} THEN CountScan(s, i + 1, depth - 1, FALSE, commas, any)
    ELSE IF s[i] = "," THEN
        CountScan(s, i + 1, depth, FALSE, IF depth = 1 THEN commas + 1 ELSE commas, any)
    ELSE IF s[i] \in Whitespace THEN CountScan(s, i + 1, depth, FALSE, commas, any)
    ELSE CountScan(s, i + 1, depth, s[i] = QUOTE, commas, any \/ depth >= 1)

TopLevelCount(text) == CountScan(text, 1, 0, FALSE, 0, FALSE)

HistoryCalls == {"get_recently_visited_venues", "save_recommendation"}

\* C1: a failure of the history store (load in create_messages, append in
\* save_recommendation_to_history) never ends the run: the node returns, the
\* next node is entered, and a run that ends after such a failure either
\* completed with its HTML or was ended by a call that is not a history call.
C1_HistoryFailureNotFatal ==
    /\ runStatus = "failed" => failedIn \notin HistoryCalls
    /\ histFailed # {} /\ runStatus = "running" =>
          node \in {"get_ideas_for_today", "save_recommendation_to_history",
                    "generate_newsletter_html", "create_gmail_draft_from_html"}
    /\ "append" \in histFailed /\ runStatus = "running" =>
          node \in {"generate_newsletter_html", "create_gmail_draft_from_html"}
    /\ histFailed # {} /\ runStatus = "done" => html # <<>> /\ node = "END"

\* a run in which both the load and the append failed reached its end
C1_Witness ==
    runStatus = "done" /\ histFailed = {"load", "append"} /\ html # <<>> /\ drafts > 0

\* C2: an adapter invocation never ends with an exception: after a failure
\* of the fetch or of the model call it has returned an error payload.
C2_AdapterNeverRaises ==
    /\ apc # "raised"
    /\ apc = "returned" /\ exc # "none" => IsErrorPayload /\ ~IsList(Returned.v)

\* the model call failed and the adapter returned
C2_Witness == apc = "returned" /\ exc = "invoke" /\ llmCalls = 1 /\ IsErrorPayload

C4_NonListRejected ==
    Validated /\ Adapter(venue).shape = "list" /\ Parsed.ok /\ ~IsList(Parsed.v) =>
        /\ Returned.ok
        /\ Returned.v = JObj(<<ErrorKey>>, <<JStr(Adapter(venue).notList)>>)

\* an object was given to a list adapter
C4_Witness ==
    /\ Validated
    /\ venue = "get_hocking_hills_info"
    /\ Parsed.ok
    /\ Parsed.v.t = "dict"
    /\ IsErrorPayload

\* C5: in every adapter a text that parses to a value of another top-level
\* shape than the adapter expects yields an error payload.
C5_WrongShapeIsError ==
    Validated /\ Parsed.ok /\ ~ShapeMatches => IsErrorPayload

\* C6: no validation error (malformed text, or wrong top-level shape) is
\* returned without the raw text.
C6_ValidationErrorCarriesRaw ==
    Validated /\ (~Parsed.ok \/ ~ShapeMatches) /\ IsErrorPayload =>
        HasKey(Returned.v, RawResponseKey)

\* C7: no returned payload is both the extracted value of a well-formed
\* answer of the expected shape and an error payload.
C7_NeverOkAndError ==
    ~(Validated /\ Parsed.ok /\ ShapeMatches /\ IsErrorPayload)

\* C8: a well-formed array given to a list adapter comes back as a list of
\* as many elements as the text has at top level, and of the same elements.
C8_ArrayLengthKept ==
    Validated /\ Adapter(venue).shape = "list" /\ Parsed.ok /\ IsList(Parsed.v) =>
        /\ Returned.ok
        /\ IsList(Returned.v)
        /\ Len(Returned.v.items) = TopLevelCount(result)
        /\ Returned.v = Parsed.v

\* an array of two or more elements came back
C8_Witness ==
    /\ Validated
    /\ Adapter(venue).shape = "list"
    /\ Parsed.ok
    /\ IsList(Parsed.v)
    /\ TopLevelCount(result) >= 2
    /\ Len(Returned.v.items) >= 2

\* C9: when the loaded page has no content (and nothing raised) the adapter
\* returns the error "Failed to load webpage content" and has not called
\* the model.
C9_EmptyPageNoModelCall ==
    apc = "returned" /\ exc = "none" /\ docs = <<<<>>>> =>
        payload = ErrorPayload(LoadFailedMsg) /\ llmCalls = 0

\* C10: cleaning a cleaned text changes nothing.
C10_SanitizeIdempotent ==
    apc = "cleaned" /\ passes = 2 => result = response

\* a text in which the three-backtick marker occurs nowhere
NoFence(text) == \A i \in 1..Len(text) : ~LitAt(text, i, Fence)

\* C11: for every input text the cleaned text neither starts nor ends with
\* the three-backtick marker.
C11_NoMarkerAtEitherEnd ==
    apc = "cleaned" => ~StartsWith(result, Fence) /\ ~EndsWith(result, Fence)

\* C12: when the text begins with the marker followed by a language tag,
\* whatever the tag, the cleaned text begins with the bare payload.
C12_AnyLanguageTagRemoved ==
    apc = "cleaned"
        /\ (\E tag \in LanguageTags : StartsWith(response, Fence \o tag \o <<NL, "a">>))
    => StartsWith(result, <<"a">>)

\* C13 as stated: the clean-up yields a text for every input, and an input
\* without a marker comes back unchanged.
C13_MarkerFreeUnchanged ==
    apc = "cleaned" =>
        /\ Len(result) <= Len(response)
        /\ NoFence(response) => result = response

\* C13: the clean-up yields a text for every input (the empty text and
\* texts shorter than a marker included), and an input without a marker
\* comes back with only its surrounding whitespace removed.
C13_MarkerFreeTrimmed ==
    apc = "cleaned" =>
        /\ Len(result) <= Len(response)
        /\ NoFence(response) => result = Strip(response)

\* a marker-free input with whitespace around it and two backticks inside
\* has been cleaned
C13_Witness ==
    /\ apc = "cleaned"
    /\ NoFence(response)
    /\ response # Strip(response)
    /\ \E i \in 1..Len(response) : response[i] = BT
    /\ result = Strip(response)

\* the last history query was answered (its results describe this state)
Queried == queryDays # -1

\* name is one of the names of the returned venue list
Listed(name) == \E k \in 1..Len(venue_list.venues) : venue_list.venues[k] = name

\* C14: an append adds exactly one entry, under an identifier no stored
\* entry has, and changes no stored entry; no other store operation changes
\* the store, so every entry ever appended stays with its field values.
C14_AppendOnly ==
    [][/\ Len(store') \in {Len(store), Len(store) + 1}
       /\ SubSeq(store', 1, Len(store)) = store
       /\ Len(store') = Len(store) + 1 =>
              \A i \in 1..Len(store) : store[i].id # store'[Len(store')].id]_vars

\* two entries were appended and a query was made after them
C14_Witness ==
    /\ Len(store) = 2
    /\ store[1].id # store[2].id
    /\ store[1].timestamp < store[2].timestamp
    /\ Queried

\* C15: recentVenues(30), asked while the 30-day window still contains the
\* time of an append, returns every name of that entry.
C15_RecentVenuesIncludeAppended ==
    queryDays = HistoryDays =>
        \A i \in 1..Len(store) :
            IsList(store[i].venues_mentioned) /\ store[i].timestamp >= now - HistoryDays =>
                /\ ~venue_list.raised
                /\ \A name \in NamesOf(store[i].venues_mentioned) : Listed(name)

\* C16: when 31 days or more have passed since the last append,
\* recentVenues(30) returns the empty list although entries are stored.
C16_ExpiredWindowIsEmpty ==
    /\ queryDays = HistoryDays
    /\ store # <<>>
    /\ \A i \in 1..Len(store) : now - store[i].timestamp >= HistoryDays + 1
    => /\ ~venue_list.raised
       /\ venue_list.venues = <<>>

\* the query came 31 days after the append of an entry that names a venue
C16_Witness ==
    /\ queryDays = HistoryDays
    /\ store # <<>>
    /\ now - store[Len(store)].timestamp = HistoryDays + 1
    /\ \E i \in 1..Len(store) : IsList(store[i].venues_mentioned)
    /\ venue_list.venues = <<>>

\* C17: the list recentVenues returns holds no name twice.
C17_NoNameTwice ==
    Queried =>
        \A i, j \in 1..Len(venue_list.venues) :
            i # j => venue_list.venues[i] # venue_list.venues[j]

\* two entries of the window name the same venue, one of them twice, and
\* the venue was returned once
C17_Witness ==
    /\ Queried
    /\ ~venue_list.raised
    /\ Len(recommendations) = 2
    /\ Len(AllNameSeq(recommendations)) = 3
    /\ Len(venue_list.venues) = 1

\* C18: for every window, every name recentVenues returns is a name of
\* venues_mentioned of an entry recentEntries returns for that window in
\* the same state.
C18_VenuesFromRecentEntries ==
    Queried =>
        \A k \in 1..Len(venue_list.venues) :
            \E i \in 1..Len(recommendations) :
                venue_list.venues[k] \in NamesOf(recommendations[i].venues_mentioned)

\* names were returned while a stored entry with names lay outside the window
C18_Witness ==
    /\ Queried
    /\ Len(venue_list.venues) >= 1
    /\ \E i \in 1..Len(store) :
          /\ store[i].timestamp < now - queryDays
          /\ IsList(store[i].venues_mentioned)
          /\ \E name \in NamesOf(store[i].venues_mentioned) : ~Listed(name)

C20_NoDuplicateVenuesPersisted ==
    \A i \in 1..Len(store) :
        LET v == store[i].venues_mentioned IN
        IsList(v) => \A j, k \in 1..Len(v.items) : j # k => v.items[j] # v.items[k]

\* C21: of two stored entries the one appended later has the strictly
\* later timestamp.
C21_TimestampsStrictlyIncrease ==
    \A i, j \in 1..Len(store) : i < j => store[i].timestamp < store[j].timestamp

\* C22: a run that completed has appended exactly one entry, a run that
\* ended in an exception has appended none.
C22_OneEntryPerCompletedRun ==
    /\ runStatus = "done" => Len(doc_ids) = 1
    /\ runStatus = "failed" => Len(doc_ids) = 0

\* C23: every record of a list the adapter returns as its result is an
\* object with the keys title, venue and address, none of them null.
C23_RecordsHaveRequiredKeys ==
    Validated /\ Adapter(venue).shape = "list" /\ Returned.ok /\ IsList(Returned.v) =>
        \A i \in 1..Len(Returned.v.items) :
            LET rec == Returned.v.items[i] IN
            /\ rec.t = "dict"
            /\ \A key \in {TitleKey, VenueKey, AddressKey} :
                   HasKey(rec, key) /\ Get(rec, key).t # "null"

\* a date is on or after another: the order of (year, month, day)
OnOrAfter(a, b) ==
    \/ a.year > b.year
    \/ a.year = b.year /\ ~MonthDayBefore(a, b)

\* the k-th anniversary of a birthdate (the children have no 29 February)
Anniversary(birth, k) == [birth EXCEPT !.year = birth.year + k]

\* C24: for every child born on or before today the returned age is the
\* number of whole years elapsed, the one k whose anniversary has come and
\* whose next anniversary has not; equivalently the year difference, less
\* one exactly when today's (month, day) is before the birthday's; there is
\* one age per child, in the order of CHILDREN.
C24_WholeYears ==
    ages # <<>> =>
        /\ Len(ages) = Len(CHILDREN)
        /\ \A i \in 1..Len(CHILDREN) :
              LET birth == StrpTime(CHILDREN[i].birthdate) IN
              OnOrAfter(today, birth) =>
                  /\ ages[i] >= 0
                  /\ OnOrAfter(today, Anniversary(birth, ages[i]))
                  /\ ~OnOrAfter(today, Anniversary(birth, ages[i] + 1))
                  /\ ages[i] = (today.year - birth.year)
                                 - (IF MonthDayBefore(today, birth) THEN 1 ELSE 0)

\* the ages were computed on a birthday after the year of birth, and on
\* that day the child has the new age
C24_Witness ==
    /\ ages # <<>>
    /\ \E i \in 1..Len(CHILDREN) :
          LET birth == StrpTime(CHILDREN[i].birthdate) IN
          /\ today.month = birth.month
          /\ today.day = birth.day
          /\ today.year > birth.year
          /\ ages[i] = today.year - birth.year

\* [tool.name for tool in tools]
ToolNames == {ToolName(tools[i]) : i \in 1..Len(tools)}

\* no weather-forecast tool and no date tool among the tools
NoWeatherNoDate ==
    /\ \A i \in 1..Len(tools) : tools[i] \in EventFetchers
    /\ "get_weather_forecast" \notin ToolNames
    /\ "get_today_date" \notin ToolNames

ReturnedOk == Validated /\ Returned.ok /\ ~IsErrorPayload

\* C26: the model is called only after one fetch that returned content, and
\* a result that is not an error is returned only after one fetch, one
\* model call, one clean-up of the answer and a successful parse of the
\* cleaned text, in that order.
C26_StepsInOrder ==
    /\ llmCalls >= 1 => fetches = 1 /\ docs # <<>> /\ docs[1] # <<>>
    /\ passes >= 1 => llmCalls = 1
    /\ apc = "returned" /\ ReturnedOk =>
           /\ fetches = 1
           /\ llmCalls = 1
           /\ passes = 1
           /\ result = Sanitize(response)
           /\ Parsed.ok
           /\ Returned.v = Parsed.v

\* C27: an invocation calls loader.load() at most once and llm.invoke at
\* most once, whether they succeed or fail.
C27_SingleAttempt ==
    /\ fetches <= 1
    /\ llmCalls <= 1
    /\ apc = "returned" /\ exc = "load" => fetches = 1 /\ llmCalls = 0
    /\ apc = "returned" /\ exc = "invoke" => fetches = 1 /\ llmCalls = 1

\* the model call failed and the adapter returned after one fetch and one
\* model call
C27_Witness ==
    /\ apc = "returned"
    /\ exc = "invoke"
    /\ fetches = 1
    /\ llmCalls = 1
    /\ IsErrorPayload

\* what an invocation returns, from its own venue, fetch outcome and model
\* outcome alone
OutcomeOf(v, fetched, failedStep, answer) ==
    IF failedStep # "none" THEN ErrorPayload(Adapter(v).failed)
    ELSE IF fetched = <<>> THEN ErrorPayload(LoadFailedMsg)
    ELSE Validate(v, Sanitize(answer))

IsNameList(v) == IsList(v) /\ \A k \in 1..Len(v.items) : v.items[k].t = "str"

\* C29: the orchestration appends an entry only for an extractor answer
\* that parses as a JSON array of venue names: every stored entry has such
\* an array as venues_mentioned.
C29_OnlyArraysSaved ==
    \A i \in 1..Len(store) : IsNameList(store[i].venues_mentioned)

\* C30: in one process at most one RecommendationDatabase is constructed,
\* it is the instance every later successful get_db call returns, and with
\* FIRESTORE_PROJECT_ID unset no call leaves an instance behind.
C30_SingleInstance ==
    /\ constructed <= 1
    /\ dbInstance = "db" <=> constructed = 1
    /\ ~projectId => dbInstance = "none"
    /\ \A g \in GetDbOutcomes :
          /\ g.raised => g.instance = dbInstance /\ ~g.built
          /\ dbInstance = "db" => ~g.raised /\ ~g.built /\ g.instance = "db"

\* a run made two successful get_db calls, for the load and for the save,
\* and one instance was constructed
C30_Witness ==
    /\ runStatus = "done"
    /\ histFailed = {}
    /\ doc_ids # <<>>
    /\ constructed = 1
    /\ dbInstance = "db"

=============================================================================
